---- MODULE Spec2Model ----
(***************************************************************************)
(* A model of the CC-NEWS batch extractor:                                 *)
(*   - ExtractionJob (src/extractor/extraction_job.py): one archive file,  *)
(*     its record loop, its counters and its parquet output;               *)
(*   - ArticleExtractor (src/extractor/extractor.py): the date filter, the *)
(*     process pool and the aggregation of the job results.                *)
(*                                                                         *)
(* JobSpec    runs one ExtractionJob.extract_warc over a fixed archive.    *)
(* RecordSpec runs it over an archive of one record of any shape.          *)
(* Spec       runs ArticleExtractor.download_articles over a process pool. *)
(* FilterSpec runs the date filter over a list of filenames.               *)
(* ReportSpec calls ExtractionJob.report_progress once.                    *)
(* BatchSpec  calls download_articles several times on one extractor.      *)
(* FairSpec   runs one download_articles under fair scheduling.            *)
(* MirrorSpec runs it over an index listing one filename twice.            *)
(***************************************************************************)
EXTENDS Integers, Sequences, FiniteSets, TLC

\* ------------------------------------------------------------------------
\* Bounds of the model
\* ------------------------------------------------------------------------
MaxRecords == 3
MaxLimit == 3
MaxReportEvery == 3

\* An Optional[...] of the code is the empty set for None and {v} for v.
None == {}
Some(v) == {v}
Val(o) == CHOOSE v \in o : TRUE

\* ExtractionJob.__init__: report_every defaults to 5000.
DEFAULT_REPORT_EVERY == 5000

\* ------------------------------------------------------------------------
\* Archive records
\* ------------------------------------------------------------------------
\* A URL or a glob pattern is a sequence of tokens.  A token is a literal
\* chunk of text; in a pattern the tokens "*" and "?" are the wildcards.
UrlExample == <<"www", ".example.com/", "a">>
UrlOther   == <<"www", ".other.org/", "a">>

PatExample == <<"*", ".example.com/", "*">>

\* One Content-Type header value: `mime`, then (when `semi`) a semicolon,
\* `spaces` blanks and "charset=" followed by `charset`.
CtHtmlUtf8  == [mime |-> "text/html",  semi |-> TRUE,  spaces |-> 1, charset |-> "utf-8"]
CtHtmlUpper == [mime |-> "text/html",  semi |-> TRUE,  spaces |-> 0, charset |-> "UTF-8"]
CtPlainUtf8 == [mime |-> "text/plain", semi |-> TRUE,  spaces |-> 1, charset |-> "utf-8"]
CtHtmlLatin == [mime |-> "text/html",  semi |-> TRUE,  spaces |-> 1, charset |-> "iso-8859-1"]
CtHtmlBare  == [mime |-> "text/html",  semi |-> FALSE, spaces |-> 0, charset |-> ""]

\* A record as the archive iterator yields it, with what each collaborator
\* does on it: `decodes` is whether the body is valid UTF-8, `adapter` what
\* newspaper / langdetect do with the decoded HTML.
Rec(t, rh, hh, src, ct, dec, ad) ==
    [rec_type |-> t, rec_headers |-> rh, http_headers |-> hh, source |-> src,
     content |-> ct, decodes |-> dec, adapter |-> ad]

RecGood      == Rec("response", TRUE, TRUE, Some(UrlExample), Some(CtHtmlUtf8), TRUE, "text")
RecGoodTitle == Rec("response", TRUE, TRUE, Some(UrlExample), Some(CtHtmlUpper), TRUE, "title")
RecPlain     == Rec("response", TRUE, TRUE, Some(UrlExample), Some(CtPlainUtf8), TRUE, "text")
RecOtherUrl  == Rec("response", TRUE, TRUE, Some(UrlOther), Some(CtHtmlUtf8), TRUE, "text")
RecRequest   == Rec("request", TRUE, TRUE, Some(UrlExample), Some(CtHtmlUtf8), TRUE, "text")
RecNoHttp    == Rec("response", TRUE, FALSE, Some(UrlExample), None, TRUE, "text")
RecNoWarc    == Rec("response", FALSE, TRUE, None, Some(CtHtmlUtf8), TRUE, "text")
RecBadBytes  == Rec("response", TRUE, TRUE, Some(UrlExample), Some(CtHtmlUtf8), FALSE, "text")
RecParseErr  == Rec("response", TRUE, TRUE, Some(UrlExample), Some(CtHtmlUtf8), TRUE, "parse_raises")
RecLangErr   == Rec("response", TRUE, TRUE, Some(UrlExample), Some(CtHtmlUtf8), TRUE, "detect_raises")

RecordKinds ==
    {RecGood, RecGoodTitle, RecPlain, RecOtherUrl, RecRequest, RecNoHttp,
     RecNoWarc, RecBadBytes, RecParseErr, RecLangErr}

PatternSets == {<<>>, <<PatExample>>}

\* ------------------------------------------------------------------------
\* ExtractionJob: pure parts
\* ------------------------------------------------------------------------
\* fnmatch.fnmatch(name, pat): shell-style matching, "*" any run of tokens,
\* "?" exactly one token, anything else itself.
RECURSIVE fnmatch(_, _)
fnmatch(name, pat) ==
    IF pat = <<>> THEN name = <<>>
    ELSE IF Head(pat) = "*"
         THEN \/ fnmatch(name, Tail(pat))
              \/ (name # <<>> /\ fnmatch(Tail(name), pat))
    ELSE IF name = <<>> THEN FALSE
    ELSE IF Head(pat) = "?" THEN fnmatch(Tail(name), Tail(pat))
    ELSE Head(pat) = Head(name) /\ fnmatch(Tail(name), Tail(pat))

\* any_match that takes an empty pattern list for "every URL".
any_match_mut(source, patterns) ==
    \/ patterns = <<>>
    \/ \E k \in 1..Len(patterns) : fnmatch(source, patterns[k])

\* any(map(lambda url: fnmatch(source, url), self.patterns))
any_match(source, patterns) ==
    \E k \in 1..Len(patterns) : fnmatch(source, patterns[k])

\* ExtractionJob.patterns (setter) on a list of strings: accepted, with a
\* warning when the list is empty.
set_patterns(patterns) ==
    [raised |-> FALSE, warned |-> patterns = <<>>, value |-> patterns]

\* CONTENT_RE.match(content): "^(?P<mime>[\w\/]+);\s?charset=(?P<charset>.*)$"
\* None when the value has no "; charset=" part or more than one blank.
CONTENT_RE(content) ==
    IF content.semi /\ content.spaces <= 1
    THEN Some([mime |-> content.mime, charset |-> content.charset])
    ELSE None

\* str.lower() on the charsets of the model.
lower(s) == IF s = "UTF-8" THEN "utf-8" ELSE s

\* is_valid_record without the comparison of the MIME type.
is_valid_record_mut(record, patterns) ==
    IF \/ record.rec_type # "response"
       \/ ~record.rec_headers
       \/ ~record.http_headers
    THEN FALSE
    ELSE IF record.source = None \/ record.content = None
    THEN FALSE
    ELSE LET content == CONTENT_RE(Val(record.content)) IN
         IF content = None THEN FALSE
         ELSE IF lower(Val(content).charset) # "utf-8"
         THEN FALSE
         ELSE any_match(Val(record.source), patterns)

\* ExtractionJob.is_valid_record
is_valid_record(record, patterns) ==
    IF \/ record.rec_type # "response"
       \/ ~record.rec_headers
       \/ ~record.http_headers
    THEN FALSE
    ELSE IF record.source = None \/ record.content = None
    THEN FALSE
    ELSE LET content == CONTENT_RE(Val(record.content)) IN
         IF content = None THEN FALSE
         ELSE IF \/ Val(content).mime # "text/html"
                 \/ lower(Val(content).charset) # "utf-8"
         THEN FALSE
         ELSE any_match(Val(record.source), patterns)

\* extract_article that lets a failure of the language detector through
\* as an article.
extract_article_mut(record) ==
    IF record.adapter \in {"parse_raises"}
    THEN None
    ELSE Some([url |-> Val(record.source), language |-> record.adapter])

\* ExtractionJob.extract_article: (article, language), or (None, None) when
\* the parser or the language detector raises.
extract_article(record) ==
    IF record.adapter \in {"parse_raises", "detect_raises"}
    THEN None
    ELSE Some([url |-> Val(record.source), language |-> record.adapter])

\* ExtractionJob.counters
counters(j) ==
    [extracted |-> j.extracted, discarded |-> j.discarded,
     errored |-> j.errored,
     total |-> j.extracted + j.discarded + j.errored]

\* ExtractionJob.report_progress: what the call does for the byte offset of
\* the iterator and the declared Content-Length.
report_progress(offset, file_size) ==
    IF file_size = None \/ Val(file_size) = 0 THEN "skipped"
    ELSE IF offset = 0 THEN "ZeroDivisionError"
    ELSE "logged"

\* ArchiveIterator.offset when the record of index i is yielded: the bytes
\* of the i records before it (one unit each).
Offset(i) == i

\* ------------------------------------------------------------------------
\* ExtractionJob: state and operations
\* ------------------------------------------------------------------------
VARIABLES
    job,        \* JobSpec: the ExtractionJob under test
    archive,    \* JobSpec: the records the archive iterator will yield
    limit,      \* JobSpec: the limit given to extract_warc
    now,        \* the reading of datetime.now()
    ex,         \* the ArticleExtractor
    main,       \* the caller's position in download_articles
    filenames,  \* retrieve_warc_paths: the filenames of the fetched indexes
    tasks,      \* the pool: one task per submitted archive path
    results,    \* the pool: the tasks in the order their results arrived
    handler     \* the pool's result thread: results taken, callback position

\* ExtractionJob.__init__: empty article buffer, counters at zero.  `pc` is
\* the position of extract_warc, `response` what the GET gave, `i` the index
\* enumerate() gives next, `closed` whether warc.close() ran, `saves` the
\* writes of the parquet file, `raised` the exception that escaped,
\* `decoded` the bodies read and decoded, `adapted` the calls of
\* extract_article, `warned` whether the patterns setter logged its warning,
\* `progress` the last call of report_progress.
NewJob(patterns, report_every) ==
    [pc |-> "idle", patterns |-> set_patterns(patterns).value,
     warned |-> set_patterns(patterns).warned,
     report_every |-> report_every,
     response |-> "none", file_size |-> None, i |-> 0,
     extracted |-> 0, discarded |-> 0, errored |-> 0,
     articles |-> <<>>, closed |-> FALSE, saves |-> 0, raised |-> "none",
     decoded |-> 0, adapted |-> 0, progress |-> None]

\* What requests.get(warc_url) can do.
Responses == {"ok", "bad_status", "network_error"}

\* download that parses the body of the response whatever its status.
download_mut(j, response, file_size) ==
    IF response = "network_error"
    THEN [j EXCEPT !.pc = "failed", !.response = response,
                   !.raised = "ConnectionError"]
    ELSE [j EXCEPT !.pc = "streaming", !.response = response,
                   !.file_size = file_size]

\* ExtractionJob.extract_warc up to the call of parse_records: the GET
\* raises, answers with a bad status, or answers ok with a Content-Length.
download(j, response, file_size) ==
    IF response = "network_error"
    THEN [j EXCEPT !.pc = "failed", !.response = response,
                   !.raised = "ConnectionError"]
    ELSE IF response = "ok"
    THEN [j EXCEPT !.pc = "streaming", !.response = response,
                   !.file_size = file_size]
    ELSE [j EXCEPT !.pc = "finalizing", !.response = response]

\* A call of ExtractionJob.report_progress(start_time, offset, file_size)
\* on the job j: the call and its outcome are kept in `progress`, and the
\* ZeroDivisionError of line 250 leaves the caller.
call_report_progress(j, offset, file_size) ==
    LET outcome == report_progress(offset, file_size)
        call == Some([offset |-> offset, file_size |-> file_size,
                      outcome |-> outcome])
    IN IF outcome = "ZeroDivisionError"
       THEN [j EXCEPT !.pc = "failed", !.raised = outcome, !.progress = call]
       ELSE [j EXCEPT !.progress = call]

\* ExtractionJob.add_article
\* add_article keeping no article.
add_article_drop(j, article) == j

\* add_article putting the article at the head of the list.
add_article_mut(j, article) ==
    [j EXCEPT !.articles = <<[index |-> j.i, url |-> article.url,
                              language |-> article.language]>> \o @]

add_article(j, article) ==
    [j EXCEPT !.articles = Append(@, [index |-> j.i, url |-> article.url,
                                      language |-> article.language])]

\* classify_record with the decoding failure left uncounted.
classify_record_mut(j, record) ==
    IF ~record.rec_headers
    THEN [j EXCEPT !.pc = "failed", !.raised = "AttributeError"]
    ELSE IF ~is_valid_record(record, j.patterns)
    THEN [j EXCEPT !.discarded = @ + 1, !.i = @ + 1]
    ELSE IF ~record.decodes
    THEN [j EXCEPT !.i = @ + 1, !.decoded = @ + 1]
    ELSE LET article == extract_article(record) IN
         IF article # None
         THEN [add_article(j, Val(article)) EXCEPT !.extracted = @ + 1,
                                                   !.i = @ + 1,
                                                   !.decoded = @ + 1,
                                                   !.adapted = @ + 1]
         ELSE [j EXCEPT !.errored = @ + 1, !.i = @ + 1,
                        !.decoded = @ + 1, !.adapted = @ + 1]

\* The body of the loop of ExtractionJob.parse_records once the reporting
\* and limit checks are passed (lines 378-398).
classify_record(j, record) ==
    IF ~record.rec_headers
    THEN [j EXCEPT !.pc = "failed", !.raised = "AttributeError"]
    ELSE IF ~is_valid_record(record, j.patterns)
    THEN [j EXCEPT !.discarded = @ + 1, !.i = @ + 1]
    ELSE IF ~record.decodes
    THEN [j EXCEPT !.errored = @ + 1, !.i = @ + 1, !.decoded = @ + 1]
    ELSE LET article == extract_article(record) IN
         IF article # None
         THEN [add_article(j, Val(article)) EXCEPT !.extracted = @ + 1,
                                                   !.i = @ + 1,
                                                   !.decoded = @ + 1,
                                                   !.adapted = @ + 1]
         ELSE [j EXCEPT !.errored = @ + 1, !.i = @ + 1,
                        !.decoded = @ + 1, !.adapted = @ + 1]

\* parse_records with the limit checked on every iteration (an `if` of its
\* own instead of the `elif`).
parse_records_mut(j, record, lim) ==
    LET reported == IF j.i # 0 /\ j.i % j.report_every = 0
                    THEN call_report_progress(j, Offset(j.i), j.file_size)
                    ELSE j
    IN IF reported.pc = "failed" THEN reported
       ELSE IF lim # None /\ j.i >= Val(lim)
       THEN [reported EXCEPT !.pc = "finalizing", !.closed = TRUE]
       ELSE classify_record(reported, record)

\* One iteration of the loop of ExtractionJob.parse_records, for the record
\* the iterator yields at index j.i (lines 368-398).
parse_records(j, record, lim) ==
    IF j.i # 0 /\ j.i % j.report_every = 0
    THEN LET reported == call_report_progress(j, Offset(j.i), j.file_size)
         IN IF reported.pc = "failed" THEN reported
            ELSE classify_record(reported, record)
    ELSE IF lim # None /\ j.i >= Val(lim)
    THEN [j EXCEPT !.pc = "finalizing", !.closed = TRUE]
    ELSE classify_record(j, record)

\* ExtractionJob.save_to_parquet: the write succeeds or raises.
save_to_parquet(j, ok) ==
    IF ok
    THEN [j EXCEPT !.pc = "done", !.saves = @ + 1]
    ELSE [j EXCEPT !.pc = "failed", !.raised = "WriteError"]

\* ------------------------------------------------------------------------
\* ArticleExtractor: dates and archive filenames
\* ------------------------------------------------------------------------
\* A datetime is <<year, month, day, hour, minute, second>>.
RECURSIVE DtLess(_, _)
DtLess(a, b) ==
    IF a = <<>> THEN FALSE
    ELSE IF Head(a) # Head(b) THEN Head(a) < Head(b)
    ELSE DtLess(Tail(a), Tail(b))

DtLeq(a, b) == a = b \/ DtLess(a, b)

IsLeap(y) == (y % 4 = 0 /\ y % 100 # 0) \/ y % 400 = 0

DaysIn(y, m) ==
    IF m = 2 THEN (IF IsLeap(y) THEN 29 ELSE 28)
    ELSE IF m \in {4, 6, 9, 11} THEN 30 ELSE 31

\* Whether six numbers are a calendar date and a time of day.
IsDatetime(t) ==
    /\ t[1] >= 1
    /\ t[2] \in 1..12
    /\ t[3] >= 1 /\ t[3] <= DaysIn(t[1], t[2])
    /\ t[4] \in 0..23 /\ t[5] \in 0..59 /\ t[6] \in 0..59

\* An archive path of a monthly index: a directory, then the filename
\* <prefix>-<digits of `time`>-<serial>.warc.gz, where `ndigits` is the
\* number of digits of the time group and `time` its digits read as
\* %Y%m%d%H%M%S.
File(dir, prefix, ndigits, time, serial) ==
    [dir |-> dir, prefix |-> prefix, ndigits |-> ndigits, time |-> time,
     serial |-> serial]

FileMarch == File("2022/03", "CC-NEWS", 14, <<2022, 3, 31, 23, 59, 59>>, "00001")
FileApril == File("2022/04", "CC-NEWS", 14, <<2022, 4, 15, 12, 0, 0>>, "00002")
FileMay   == File("2022/05", "CC-NEWS", 14, <<2022, 5, 1, 0, 0, 1>>, "00003")
FileOther == File("2022/04", "CC-MAIN", 14, <<2022, 4, 15, 12, 0, 0>>, "00004")
FileShort == File("2022/04", "CC-NEWS", 8, <<2022, 4, 15, 0, 0, 0>>, "00005")

FileEdge  == File("2022/05", "CC-NEWS", 14, <<2022, 5, 1, 0, 0, 0>>, "00007")
FileBad   == File("2022/04", "CC-NEWS", 14, <<2022, 4, 31, 0, 0, 0>>, "00006")

\* The listings the monthly index warc.paths.gz of CC-NEWS/<year>/<month>
\* can hold.
WarcPaths(year, month) ==
    IF year = 2022 /\ month = 3 THEN {<<FileMarch>>}
    ELSE IF year = 2022 /\ month = 4
    THEN {<<FileOther, FileApril, FileShort>>, <<FileApril, FileBad>>}
    ELSE IF year = 2022 /\ month = 5 THEN {<<FileMay>>}
    ELSE {<<>>}

\* The dates a caller gives as window bounds, and the clock readings.
D0315 == <<2022, 3, 15, 0, 0, 0>>
D0401 == <<2022, 4, 1, 0, 0, 0>>
D0420 == <<2022, 4, 20, 0, 0, 0>>
D0501 == <<2022, 5, 1, 0, 0, 0>>
D0601 == <<2022, 6, 1, 0, 0, 0>>
D0701 == <<2022, 7, 1, 0, 0, 0>>

Dates == {D0315, D0401, D0420, D0501, D0701}
Clock == {D0601}

\* WARC_FILE_RE.search(warc_filepath): "CC-NEWS-(?P<time>\d{14})-(?P<serial>\d{5})"
WARC_FILE_RE(f) ==
    IF f.prefix = "CC-NEWS" /\ f.ndigits = 14 THEN Some(f.time) ELSE None

\* The result of a call that may raise: `raised` and, when it returned,
\* the value.
Return(v) == [raised |-> FALSE, value |-> v]
Raise == [raised |-> TRUE, value |-> None]

\* datetime.strptime(time, "%Y%m%d%H%M%S"): ValueError when the digits are
\* not a date and a time.
strptime(time) == IF IsDatetime(time) THEN Return(Some(time)) ELSE Raise

\* ArticleExtractor.__extract_date
extract_date(f) ==
    LET match == WARC_FILE_RE(f) IN
    IF match = None THEN Return(None) ELSE strptime(Val(match))

\* warc_is_within_date with the end of the window included.
warc_is_within_date_mut(e, f) ==
    LET crawl_date == extract_date(f) IN
    IF crawl_date.raised THEN Raise
    ELSE Return(/\ crawl_date.value # None
                /\ DtLeq(e.start_date, Val(crawl_date.value))
                /\ DtLeq(Val(crawl_date.value), e.end_date))

\* ArticleExtractor.warc_is_within_date
warc_is_within_date(e, f) ==
    LET crawl_date == extract_date(f) IN
    IF crawl_date.raised THEN Raise
    ELSE Return(/\ crawl_date.value # None
                /\ DtLeq(e.start_date, Val(crawl_date.value))
                /\ DtLess(Val(crawl_date.value), e.end_date))

\* ArticleExtractor.__filter_warc_paths
RECURSIVE filter_warc_paths(_, _)
filter_warc_paths(e, filepaths) ==
    IF filepaths = <<>> THEN Return(<<>>)
    ELSE LET keep == warc_is_within_date(e, Head(filepaths))
             rest == filter_warc_paths(e, Tail(filepaths))
         IN IF keep.raised \/ rest.raised THEN Raise
            ELSE IF keep.value
                 THEN Return(<<Head(filepaths)>> \o rest.value)
                 ELSE rest

\* dateutil.rrule(MONTHLY, dtstart, until=until) from its k-th month on:
\* dtstart moved forward month by month, a month without that day skipped,
\* up to the last occurrence not after until.
RECURSIVE rrule(_, _, _)
rrule(dtstart, until, k) ==
    LET y == dtstart[1] + ((dtstart[2] - 1 + k) \div 12)
        m == ((dtstart[2] - 1 + k) % 12) + 1
        d == <<y, m, dtstart[3], dtstart[4], dtstart[5], dtstart[6]>>
    IN IF DtLess(until, <<y, m, 1, 0, 0, 0>>) THEN <<>>
       ELSE IF IsDatetime(d) /\ DtLeq(d, until)
            THEN <<d>> \o rrule(dtstart, until, k + 1)
            ELSE rrule(dtstart, until, k + 1)

\* What the GET of one monthly index can give: a network error, a bad
\* status, or the gzipped listing.
IndexResponse(r, content) == [response |-> r, content |-> content]

IndexResponses(year, month) ==
    {IndexResponse("network_error", <<>>), IndexResponse("bad_status", <<>>)}
        \cup {IndexResponse("ok", c) : c \in WarcPaths(year, month)}

\* The months the remote archive has an index for, and what the GETs of one
\* retrieve_warc_paths can give for them.
IndexKeys == {<<2022, 3>>, <<2022, 4>>, <<2022, 5>>}

Fetches ==
    {fetch \in [IndexKeys -> UNION {IndexResponses(key[1], key[2]) :
                                      key \in IndexKeys}] :
        \A key \in IndexKeys : fetch[key] \in IndexResponses(key[1], key[2])}

\* The GET of the index of a month: a month the archive has no index for
\* answers with a bad status.
Get(fetch, key) ==
    IF key \in DOMAIN fetch THEN fetch[key]
    ELSE IndexResponse("bad_status", <<>>)

\* ArticleExtractor.__load_warc_paths
load_warc_paths(got) ==
    IF got.response = "network_error" THEN Raise
    ELSE IF got.response = "ok" THEN Return(got.content)
    ELSE Return(<<>>)

\* The loop of ArticleExtractor.retrieve_warc_paths (lines 306-310) over the
\* months ds, where fetch[<<year, month>>] is what the GET gives.
RECURSIVE load_months(_, _)
load_months(ds, fetch) ==
    IF ds = <<>> THEN Return(<<>>)
    ELSE LET got == load_warc_paths(Get(fetch, <<Head(ds)[1], Head(ds)[2]>>))
             rest == load_months(Tail(ds), fetch)
         IN IF got.raised \/ rest.raised THEN Raise
            ELSE Return(got.value \o rest.value)

\* The <<year, month>> of the indexes the loop of retrieve_warc_paths asks
\* for over the months ds: one GET per month, until a GET raises.
RECURSIVE requested_months(_, _)
requested_months(ds, fetch) ==
    IF ds = <<>> THEN <<>>
    ELSE LET key == <<Head(ds)[1], Head(ds)[2]>> IN
         IF load_warc_paths(Get(fetch, key)).raised THEN <<key>>
         ELSE <<key>> \o requested_months(Tail(ds), fetch)

\* ------------------------------------------------------------------------
\* ArticleExtractor: state and operations
\* ------------------------------------------------------------------------
\* os.cpu_count()
CpuCount == 2

\* ArticleExtractor.processors (setter)
set_processors(n) ==
    IF n = None THEN Return(CpuCount)
    ELSE IF Val(n) <= 0 \/ Val(n) > CpuCount THEN Raise
    ELSE Return(Val(n))

\* ArticleExtractor.__init__ with an accepted processors argument.
NewExtractor(processors, clock) ==
    [processors |-> processors, start_date |-> clock, end_date |-> clock,
     extracted |-> 0, discarded |-> 0, errored |-> 0, parquet_files |-> <<>>]

\* ArticleExtractor.end_date (setter)
set_end_date(e, end_date, clock) ==
    IF DtLess(clock, end_date) THEN Raise
    ELSE Return([e EXCEPT !.end_date = end_date])

\* set_start_date without the comparison with end_date.
set_start_date_mut(e, start_date) ==
    Return([e EXCEPT !.start_date = start_date])

\* ArticleExtractor.start_date (setter)
set_start_date(e, start_date) ==
    IF DtLeq(e.end_date, start_date) THEN Raise
    ELSE Return([e EXCEPT !.start_date = start_date])

\* ArticleExtractor.retrieve_warc_paths, lines 303-304: the two setters.
\* The extractor after them, and whether one raised.
set_window(e, start_date, end_date, clock) ==
    LET e1 == set_end_date(e, end_date, clock) IN
    IF e1.raised THEN [raised |-> TRUE, ex |-> e]
    ELSE LET e2 == set_start_date(e1.value, start_date) IN
         IF e2.raised THEN [raised |-> TRUE, ex |-> e1.value]
         ELSE [raised |-> FALSE, ex |-> e2.value]

\* ArticleExtractor.retrieve_warc_paths, lines 306-312, for the extractor e
\* the setters left: the filenames fetched and the filtered paths, unless a
\* fetch or the filter raised; `error` is the exception when paths is
\* raised: that of requests.get or that of strptime.
retrieve_warc_paths(e, fetch) ==
    LET ds == rrule(e.start_date, e.end_date, 0)
        loaded == load_months(ds, fetch)
    IN IF loaded.raised
       THEN [filenames |-> <<>>, requested |-> requested_months(ds, fetch),
             paths |-> Raise, error |-> "ConnectionError"]
       ELSE [filenames |-> loaded.value,
             requested |-> requested_months(ds, fetch),
             paths |-> filter_warc_paths(e, loaded.value),
             error |-> "ValueError"]

\* ExtractionJob.basename / ExtractionJob.filepath: the parquet file of the
\* job of an archive path, named after the filename without directory and
\* extensions.
filepath(f) == <<f.prefix, f.time, f.serial>>

\* ArticleExtractor.counters
ex_counters(e) ==
    [extracted |-> e.extracted, discarded |-> e.discarded,
     errored |-> e.errored,
     total |-> e.extracted + e.discarded + e.errored]

\* update_counters with the errored total assigned instead of added to.
update_counters_mut(e, c, field) ==
    IF field = "extracted" THEN [e EXCEPT !.extracted = @ + c.extracted]
    ELSE IF field = "discarded" THEN [e EXCEPT !.discarded = @ + c.discarded]
    ELSE [e EXCEPT !.errored = c.errored]

\* ArticleExtractor.__update_counters, one line (field) at a time.
update_counters(e, c, field) ==
    IF field = "extracted" THEN [e EXCEPT !.extracted = @ + c.extracted]
    ELSE IF field = "discarded" THEN [e EXCEPT !.discarded = @ + c.discarded]
    ELSE [e EXCEPT !.errored = @ + c.errored]

\* retain_parquet keeping the path of an empty parquet file too.
retain_parquet_mut(e, parquet_path, c) ==
    IF c.extracted >= 0
    THEN [e EXCEPT !.parquet_files = Append(@, parquet_path)]
    ELSE e

\* ArticleExtractor.__on_job_success, lines 366-369
retain_parquet(e, parquet_path, c) ==
    IF c.extracted > 0
    THEN [e EXCEPT !.parquet_files = Append(@, parquet_path)]
    ELSE e

\* on_job_error counting the failed job as one errored article.
on_job_error_mut(e) == [e EXCEPT !.errored = @ + 1]

\* ArticleExtractor.__on_job_error: logs, the extractor is left as it is.
on_job_error(e) == e

\* ------------------------------------------------------------------------
\* ArticleExtractor.download_articles over multiprocessing.Pool
\* ------------------------------------------------------------------------
\* What the jobs of the pool are given and meet.
MaxPoolRecords == 2
PoolRecordKinds == {RecGood, RecPlain, RecBadBytes}
PoolPatternSets == {<<PatExample>>}
PoolLimits == {None, Some(0)}
PoolFileSizes == {None}

\* ArticleExtractor.run_extraction_job, line 342: the job a worker
\* constructs; the date_crawled setter raises on a missing or future date.
construct_job(date_crawled, patterns, clock) ==
    IF date_crawled = None \/ DtLess(clock, Val(date_crawled))
    THEN [NewJob(patterns, DEFAULT_REPORT_EVERY) EXCEPT
              !.pc = "failed", !.raised = "ValueError"]
    ELSE NewJob(patterns, DEFAULT_REPORT_EVERY)

\* ArticleExtractor.__submit_job: the task handed to pool.apply_async.
\* `status` is queued, running or finished; `cb` the position of its
\* callback in the result thread; on_success / on_error count the calls of
\* the two callbacks.
submit_job(warc_path, patterns) ==
    [path |-> warc_path, date_crawled |-> extract_date(warc_path).value,
     status |-> "queued", cb |-> "none", on_success |-> 0, on_error |-> 0,
     job |-> NewJob(patterns, DEFAULT_REPORT_EVERY)]

TaskIds == 1..Len(tasks)

\* pool_worker_free of a pool that starts a process per task.
pool_worker_free_mut(ts, processors) == TRUE

\* pool_worker_free of a pool that keeps one of its n processes idle.
pool_worker_free_idle(ts, processors) ==
    Cardinality({k \in 1..Len(ts) : ts[k].status = "running"}) < processors - 1

\* multiprocessing.Pool(processes=n): a worker process is free to take the
\* next task when fewer than n tasks are running.
pool_worker_free(ts, processors) ==
    Cardinality({k \in 1..Len(ts) : ts[k].status = "running"}) < processors

\* pool_result_thread_free of a pool that runs each callback on a thread of
\* its own.
pool_result_thread_free_mut(ts) == TRUE

\* multiprocessing.Pool runs the callbacks of apply_async on its one result
\* thread: the next result is taken when no callback is in progress.
pool_result_thread_free(ts) ==
    \A k \in 1..Len(ts) : ts[k].cb \in {"none", "done"}

\* pool_join waiting for the workers only, not for the callbacks.
pool_join_mut(ts) ==
    \A k \in 1..Len(ts) : ts[k].status = "finished"

\* pool.close(); pool.join(): returns when every submitted task has its
\* result handled.
pool_join(ts) ==
    \A k \in 1..Len(ts) : ts[k].status = "finished" /\ ts[k].cb = "done"

\* The caller before download_articles is called: `window` the start_date
\* and end_date arguments of the call, `requested` the <<year, month>> of
\* the monthly indexes retrieve_warc_paths asked for, `paths` what it
\* returned, `raised` the exception that ended the call, `batches` the
\* calls of download_articles on this extractor that returned before this
\* one, `before` the counters and the retained files at the entry of the
\* call.
NewCall ==
    [pc |-> "ready", window |-> None, requested |-> <<>>, paths |-> <<>>,
     patterns |-> <<>>, limit |-> None, raised |-> "none",
     batches |-> 0, before |-> None]

Init ==
    /\ now \in Clock
    /\ \E n \in {None} \cup {Some(p) : p \in 0..(CpuCount + 1)} :
           /\ ~set_processors(n).raised
           /\ ex = NewExtractor(set_processors(n).value, now)
    /\ main = NewCall
    /\ filenames = <<>>
    /\ tasks = <<>>
    /\ results = <<>>
    /\ handler = 0
    /\ job = NewJob(<<>>, 1)
    /\ archive = <<>>
    /\ limit = None

\* download_articles(patterns, start_date, end_date, limit) up to the
\* creation of the pool (lines 414-420), the GETs of the indexes answering
\* as one of fetches; the pool is a new one, without tasks.
download_articles(patterns, start_date, end_date, lim, fetches) ==
    LET w == set_window(ex, start_date, end_date, now)
        args == Some([start_date |-> start_date, end_date |-> end_date])
        call == [NewCall EXCEPT
                    !.window = args,
                    !.batches = main.batches +
                                (IF main.pc = "returned" THEN 1 ELSE 0),
                    !.before = Some([counters |-> ex_counters(ex),
                                     parquet_files |-> ex.parquet_files])]
    IN
    /\ ex' = w.ex
    /\ tasks' = <<>>
    /\ results' = <<>>
    /\ handler' = 0
    /\ IF w.raised
       THEN /\ filenames' = <<>>
            /\ main' = [call EXCEPT !.pc = "raised", !.raised = "ValueError"]
       ELSE \E r \in {retrieve_warc_paths(w.ex, fetch) : fetch \in fetches} :
              /\ filenames' = r.filenames
              /\ main' = IF r.paths.raised
                         THEN [call EXCEPT !.pc = "raised",
                                           !.requested = r.requested,
                                           !.raised = r.error]
                         ELSE [call EXCEPT !.pc = "submitting",
                                           !.requested = r.requested,
                                           !.paths = r.paths.value,
                                           !.patterns = patterns,
                                           !.limit = lim]

\* A call of download_articles by a caller that has had no call return.
DownloadArticles ==
    /\ main.pc \in {"ready", "raised"}
    /\ \E patterns \in PoolPatternSets, start_date \in Dates,
          end_date \in Dates, lim \in PoolLimits :
         download_articles(patterns, start_date, end_date, lim, Fetches)
    /\ UNCHANGED <<now, job, archive, limit>>

\* download_articles, lines 422-423: one __submit_job.
SubmitJob ==
    /\ main.pc = "submitting"
    /\ Len(tasks) < Len(main.paths)
    /\ tasks' = Append(tasks, submit_job(main.paths[Len(tasks) + 1],
                                         main.patterns))
    /\ UNCHANGED <<now, ex, main, filenames, results, handler, job, archive,
                   limit>>

\* download_articles, lines 425-426: pool.close() and the start of join().
ClosePool ==
    /\ main.pc = "submitting"
    /\ Len(tasks) = Len(main.paths)
    /\ main' = [main EXCEPT !.pc = "joining"]
    /\ UNCHANGED <<now, ex, filenames, tasks, results, handler, job, archive,
                   limit>>

\* pool.join() returns, and download_articles with it.
JoinPool ==
    /\ main.pc = "joining"
    /\ pool_join(tasks)
    /\ main' = [main EXCEPT !.pc = "returned"]
    /\ UNCHANGED <<now, ex, filenames, tasks, results, handler, job, archive,
                   limit>>

\* The step of a worker leaves task k with job j: when the job returned or
\* raised, the worker puts the result on the result queue and is free.
WorkerStep(k, j) ==
    /\ tasks' = [tasks EXCEPT ![k].job = j,
                              ![k].status = IF j.pc \in {"done", "failed"}
                                            THEN "finished" ELSE "running"]
    /\ results' = IF j.pc \in {"done", "failed"}
                  THEN Append(results, k) ELSE results
    /\ UNCHANGED <<now, ex, main, filenames, handler, job, archive, limit>>

\* A free worker takes the oldest queued task and constructs its job.
StartJob(k) ==
    /\ tasks[k].status = "queued"
    /\ \A n \in 1..(k - 1) : tasks[n].status # "queued"
    /\ pool_worker_free(tasks, ex.processors)
    /\ WorkerStep(k, construct_job(tasks[k].date_crawled, main.patterns, now))

\* ExtractionJob.extract_warc in the worker of task k: the GET.
PoolDownload(k) ==
    /\ tasks[k].status = "running"
    /\ tasks[k].job.pc = "idle"
    /\ \E response \in Responses, fs \in PoolFileSizes :
           WorkerStep(k, download(tasks[k].job, response, fs))

\* One more record of the archive of task k.
PoolNextRecord(k) ==
    /\ tasks[k].status = "running"
    /\ tasks[k].job.pc = "streaming"
    /\ tasks[k].job.i < MaxPoolRecords
    /\ \E record \in PoolRecordKinds :
           WorkerStep(k, parse_records(tasks[k].job, record, main.limit))

\* The archive of task k has no more records.
PoolEndOfStream(k) ==
    /\ tasks[k].status = "running"
    /\ tasks[k].job.pc = "streaming"
    /\ WorkerStep(k, [tasks[k].job EXCEPT !.pc = "finalizing"])

\* save_to_parquet in the worker of task k, then the return of
\* run_extraction_job.
PoolSave(k) ==
    /\ tasks[k].status = "running"
    /\ tasks[k].job.pc = "finalizing"
    /\ \E ok \in BOOLEAN : WorkerStep(k, save_to_parquet(tasks[k].job, ok))

\* The result thread takes the next result: the error callback of a job
\* that raised (__on_job_error only logs), or the start of the success
\* callback.
TakeResult ==
    /\ handler < Len(results)
    /\ pool_result_thread_free(tasks)
    /\ LET k == results[handler + 1] IN
         IF tasks[k].job.pc = "failed"
         THEN /\ tasks' = [tasks EXCEPT ![k].cb = "done",
                                        ![k].on_error = @ + 1]
              /\ ex' = on_job_error(ex)
         ELSE /\ tasks' = [tasks EXCEPT ![k].cb = "extracted",
                                        ![k].on_success = @ + 1]
              /\ ex' = ex
    /\ handler' = handler + 1
    /\ UNCHANGED <<now, main, filenames, results, job, archive, limit>>

\* __on_job_success, line 363: one line of __update_counters.
UpdateCounters(k) ==
    /\ tasks[k].cb \in {"extracted", "discarded", "errored"}
    /\ ex' = update_counters(ex, counters(tasks[k].job), tasks[k].cb)
    /\ tasks' = [tasks EXCEPT ![k].cb =
                    IF @ = "extracted" THEN "discarded"
                    ELSE IF @ = "discarded" THEN "errored" ELSE "report"]
    /\ UNCHANGED <<now, main, filenames, results, handler, job, archive, limit>>

\* __on_job_success, line 364: report_counters logs the aggregate.
ReportCounters(k) ==
    /\ tasks[k].cb = "report"
    /\ tasks' = [tasks EXCEPT ![k].cb = "retain"]
    /\ UNCHANGED <<now, ex, main, filenames, results, handler, job, archive,
                   limit>>

\* __on_job_success, lines 366-369: keep the parquet path of a job that
\* extracted something.
RetainParquet(k) ==
    /\ tasks[k].cb = "retain"
    /\ ex' = retain_parquet(ex, filepath(tasks[k].path), counters(tasks[k].job))
    /\ tasks' = [tasks EXCEPT ![k].cb = "done"]
    /\ UNCHANGED <<now, main, filenames, results, handler, job, archive, limit>>

Next ==
    \/ DownloadArticles
    \/ SubmitJob
    \/ ClosePool
    \/ JoinPool
    \/ \E k \in TaskIds : StartJob(k)
    \/ \E k \in TaskIds : PoolDownload(k)
    \/ \E k \in TaskIds : PoolNextRecord(k)
    \/ \E k \in TaskIds : PoolEndOfStream(k)
    \/ \E k \in TaskIds : PoolSave(k)
    \/ TakeResult
    \/ \E k \in TaskIds : UpdateCounters(k)
    \/ \E k \in TaskIds : ReportCounters(k)
    \/ \E k \in TaskIds : RetainParquet(k)

vars == <<job, archive, limit, now, ex, main, filenames, tasks, results,
          handler>>

Spec == Init /\ [][Next]_vars

\* ------------------------------------------------------------------------
\* Properties of download_articles
\* ------------------------------------------------------------------------
\* The tasks whose job returned, and those whose job raised.
Succeeded == {k \in TaskIds : tasks[k].status = "finished" /\ tasks[k].job.pc = "done"}
Failed == {k \in TaskIds : tasks[k].status = "finished" /\ tasks[k].job.pc = "failed"}

\* The sum of one counter of the jobs of the tasks S.
RECURSIVE JobSum(_, _)
JobSum(S, field) ==
    IF S = {} THEN 0
    ELSE LET k == CHOOSE x \in S : TRUE
         IN counters(tasks[k].job)[field] + JobSum(S \ {k}, field)

Retained(k) ==
    \E n \in 1..Len(ex.parquet_files) :
        ex.parquet_files[n] = filepath(tasks[k].path)

\* C4: when download_articles has returned on a fresh extractor, each global
\* counter is the sum of that counter over the jobs that completed
\* successfully, each counted once, whatever the order of completion.
C4_GlobalCountersAreSums ==
    main.pc = "returned" =>
        /\ ex.extracted = JobSum(Succeeded, "extracted")
        /\ ex.discarded = JobSum(Succeeded, "discarded")
        /\ ex.errored = JobSum(Succeeded, "errored")

\* Two jobs that completed in the reverse of the submission order, both
\* with non-zero counters.
C4_Witness ==
    /\ main.pc = "returned"
    /\ results = <<2, 1>>
    /\ Succeeded = {1, 2}
    /\ counters(tasks[1].job).total = 2 /\ tasks[1].job.errored = 1
    /\ counters(tasks[2].job).total = 2 /\ tasks[2].job.errored = 1

\* C5: parquet_files holds the output location of a job exactly when the
\* success callback of that job has completed and the job extracted at least
\* one article; never that of an empty or failed job.
C5_RetainedIffExtracted ==
    \A k \in TaskIds :
        Retained(k) <=> /\ k \in Succeeded
                        /\ tasks[k].cb = "done"
                        /\ tasks[k].job.extracted > 0

\* One job with an article and one empty job, both handled.
C5_Witness ==
    /\ main.pc = "returned"
    /\ Succeeded = {1, 2}
    /\ tasks[1].job.extracted = 0
    /\ tasks[2].job.extracted > 0
    /\ Retained(2) /\ ~Retained(1)

\* C6: a job that raised is only logged: its error callback changes nothing
\* of the extractor, every other job still runs and is aggregated, and at
\* the return the failed job's counters are not in the totals nor its
\* location in parquet_files.
C6_FailedJobOnlyLogged ==
    /\ [][\A k \in TaskIds :
             (k \in DOMAIN tasks' /\ tasks'[k].on_error # tasks[k].on_error)
                 => ex' = ex]_vars
    /\ [](main.pc = "returned" =>
            /\ \A k \in Failed : ~Retained(k) /\ tasks[k].on_success = 0
            /\ \A k \in Succeeded : tasks[k].on_success = 1
            /\ Succeeded \cup Failed = 1..Len(main.paths)
            /\ ex_counters(ex).total = JobSum(Succeeded, "total"))

\* The write of the first job failed after it had extracted an article; the
\* second job succeeded and is the only one aggregated.
C6_Witness ==
    /\ main.pc = "returned"
    /\ Failed = {1} /\ Succeeded = {2}
    /\ tasks[1].job.raised = "WriteError" /\ tasks[1].job.extracted = 1
    /\ tasks[2].job.extracted = 1
    /\ ex.extracted = 1
    /\ Retained(2)

\* C7: when download_articles returns, every submitted job has completed and
\* has had exactly one of the two callbacks executed; none is queued,
\* running or waiting for its callback.
C7_ReturnAfterAllCallbacks ==
    main.pc = "returned" =>
        /\ Len(tasks) = Len(main.paths)
        /\ \A k \in TaskIds :
              /\ tasks[k].status = "finished"
              /\ tasks[k].cb = "done"
              /\ tasks[k].on_success + tasks[k].on_error = 1

\* A batch of two jobs returned, one by each callback.
C7_Witness ==
    /\ main.pc = "returned"
    /\ Len(tasks) = 2
    /\ tasks[1].on_success = 1 /\ tasks[2].on_error = 1

\* C8: at most `processors` jobs execute at the same time.
C8_AtMostProcessorsRunning ==
    Cardinality({k \in TaskIds : tasks[k].status = "running"}) <= ex.processors

\* One processor, two submitted jobs: one runs and the other waits.
C8_Witness ==
    /\ ex.processors = 1
    /\ Len(tasks) = 2
    /\ tasks[1].status = "running" /\ tasks[1].job.pc = "streaming"
    /\ tasks[2].status = "queued"

\* The tasks whose merge has passed the given line of __update_counters.
MergedPast(lines) == {k \in TaskIds : tasks[k].cb \in lines}

\* C9: merges are serialized: at most one callback is in progress, each
\* global counter is the sum over the jobs whose merge has passed that
\* field (no update lost), and the snapshot a callback reports is the sum
\* over fully merged jobs.
C9_MergesSerialized ==
    /\ Cardinality({k \in TaskIds : tasks[k].cb \notin {"none", "done"}}) <= 1
    /\ ex.extracted = JobSum(MergedPast({"discarded", "errored", "report",
                                         "retain", "done"}) \ Failed,
                             "extracted")
    /\ ex.discarded = JobSum(MergedPast({"errored", "report", "retain",
                                         "done"}) \ Failed, "discarded")
    /\ ex.errored = JobSum(MergedPast({"report", "retain", "done"}) \ Failed,
                           "errored")
    /\ \A k \in TaskIds :
          tasks[k].cb = "report" =>
              LET merged == MergedPast({"report", "retain", "done"}) \ Failed
              IN /\ ex.extracted = JobSum(merged, "extracted")
                 /\ ex.discarded = JobSum(merged, "discarded")
                 /\ ex.errored = JobSum(merged, "errored")

\* Both jobs have completed; the merge of one is half done while the result
\* of the other waits.
C9_Witness ==
    /\ Succeeded = {1, 2}
    /\ \E k \in {1, 2} :
          /\ tasks[k].cb = "discarded" /\ tasks[k].job.extracted = 1
          /\ tasks[3 - k].cb = "none" /\ tasks[3 - k].job.extracted = 1

\* C24: the global counters change only inside the success handler, which
\* runs for a job only after the job has fully completed (its record loop
\* ended and its parquet file was written); no step of a job writes the
\* global counters, and no global counter reflects a job that is still
\* downloading, streaming or finalizing.
C24_CountersOnlyInSuccessHandler ==
    /\ [][ex_counters(ex') # ex_counters(ex) =>
             \E k \in TaskIds :
                 /\ tasks[k].cb \in {"extracted", "discarded", "errored"}
                 /\ tasks[k].on_success = 1
                 /\ tasks[k].status = "finished"
                 /\ tasks[k].job.pc = "done"
                 /\ tasks[k].job.saves = 1
                 /\ tasks'[k].job = tasks[k].job
                 /\ ex' = update_counters(ex, counters(tasks[k].job),
                                          tasks[k].cb)]_vars
    /\ [][(\E k \in TaskIds : tasks'[k].job # tasks[k].job) =>
             ex_counters(ex') = ex_counters(ex)]_vars
    /\ [](\A k \in TaskIds :
             tasks[k].status # "finished" => tasks[k].cb = "none")

\* The extracted article of one job is merged while the other job, which
\* has extracted an article too, is still streaming.
C24_Witness ==
    /\ Len(tasks) = 2
    /\ \E k \in TaskIds :
          /\ tasks[k].cb = "discarded"
          /\ tasks[k].job.extracted = 1
          /\ tasks[3 - k].status = "running"
          /\ tasks[3 - k].job.pc = "streaming"
          /\ tasks[3 - k].job.extracted = 1
    /\ ex.extracted = 1

\* The steps of the worker processes, of the result thread of the pool and
\* of the caller inside download_articles once the pool exists.
WorkerProcesses ==
    \E k \in TaskIds : \/ StartJob(k)
                       \/ PoolDownload(k)
                       \/ PoolNextRecord(k)
                       \/ PoolEndOfStream(k)
                       \/ PoolSave(k)

ResultThread ==
    \/ TakeResult
    \/ \E k \in TaskIds : UpdateCounters(k) \/ ReportCounters(k) \/ RetainParquet(k)

MainThread == SubmitJob \/ ClosePool \/ JoinPool

\* ------------------------------------------------------------------------
\* Properties of retrieve_warc_paths and of the window
\* ------------------------------------------------------------------------
\* The <<year, month>> of the calendar months from the month of start
\* through the month of end, in calendar order.
CalendarMonths(start, end) ==
    [k \in 1..(12 * (end[1] - start[1]) + end[2] - start[2] + 1) |->
        <<start[1] + ((start[2] + k - 2) \div 12),
          ((start[2] + k - 2) % 12) + 1>>]

\* retrieve_warc_paths returned: no setter, fetch or filter raised.
Retrieved == main.pc \in {"submitting", "joining", "returned"}

\* C11: for every valid window (start < end) retrieve_warc_paths requests
\* the monthly index of every calendar month from the month of start through
\* the month of end, each exactly once and in calendar order, whatever the
\* days of the month of start and end.
C11_EveryMonthRequested ==
    Retrieved =>
        main.requested = CalendarMonths(ex.start_date, ex.end_date)

\* The <<year, month>> of the dates ds.
MonthsOf(ds) == [n \in 1..Len(ds) |-> <<ds[n][1], ds[n][2]>>]

\* C17: in retrieve_warc_paths a failed fetch of the index of one month is
\* replaced by an empty list of filenames; the listing never fails because
\* of one month, and the months after it are still requested.
C17_FailedFetchTolerated ==
    /\ main.raised # "ConnectionError"
    /\ main.requested # <<>> =>
          main.requested = MonthsOf(rrule(ex.start_date, ex.end_date, 0))

\* C18: once a window was assigned to the extractor, whether the
\* assignment was accepted or rejected, start_date < end_date holds and
\* end_date is not later than the caller's clock.
C18_WindowInvariant ==
    main.window # None =>
        /\ DtLess(ex.start_date, ex.end_date)
        /\ DtLeq(ex.end_date, now)

\* The window given to download_articles has start >= end or an end later
\* than the clock.
InvalidWindow(window) ==
    \/ DtLeq(window.end_date, window.start_date)
    \/ DtLess(now, window.end_date)

\* C19: a download_articles call whose window has start >= end or an end
\* date in the future raises a ValueError before any monthly index is
\* requested and before any job is submitted to a pool.
C19_InvalidWindowFailsFast ==
    (main.window # None /\ InvalidWindow(Val(main.window))) =>
        /\ main.pc = "raised"
        /\ main.raised = "ValueError"
        /\ main.requested = <<>>
        /\ filenames = <<>>
        /\ tasks = <<>>

\* download_articles(start 2022-05-01, end 2022-04-01) was rejected by the
\* start_date setter.
C19_Witness ==
    /\ main.window = Some([start_date |-> D0501, end_date |-> D0401])
    /\ main.pc = "raised"
    /\ ex.end_date = D0401
    /\ tasks = <<>>

\* C20: a limit that is not positive is rejected before any job runs: no
\* job of the pool enters its record loop with limit <= 0.
C20_NonPositiveLimitRejected ==
    \A k \in TaskIds :
        tasks[k].job.response = "ok" =>
            (main.limit = None \/ Val(main.limit) > 0)

\* ------------------------------------------------------------------------
\* FilterSpec: __filter_warc_paths over a list of filenames
\* ------------------------------------------------------------------------
MaxFiles == 3

FilterFiles ==
    {FileMarch, FileApril, FileMay, FileEdge, FileOther, FileShort, FileBad}

FileLists == UNION {[1..n -> FilterFiles] : n \in 0..MaxFiles}

\* An extractor whose window was accepted by the setters, and the
\* filenames of the indexes.
FilterInit ==
    /\ now \in Clock
    /\ \E start_date \in Dates, end_date \in Dates :
         LET w == set_window(NewExtractor(CpuCount, now), start_date,
                             end_date, now)
         IN ~w.raised /\ ex = w.ex
    /\ filenames \in FileLists
    /\ main = NewCall
    /\ tasks = <<>>
    /\ results = <<>>
    /\ handler = 0
    /\ job = NewJob(<<>>, 1)
    /\ archive = <<>>
    /\ limit = None

\* retrieve_warc_paths, line 312.
FilterWarcPaths ==
    /\ main.pc = "ready"
    /\ LET r == filter_warc_paths(ex, filenames) IN
         main' = IF r.raised THEN [main EXCEPT !.pc = "raised"]
                 ELSE [main EXCEPT !.pc = "filtered", !.paths = r.value]
    /\ UNCHANGED <<now, ex, filenames, tasks, results, handler, job, archive,
                   limit>>

FilterNext == FilterWarcPaths

FilterSpec == FilterInit /\ [][FilterNext]_vars

\* C10: the date filter keeps a filename exactly when it matches the CC-NEWS
\* pattern and start <= timestamp < end; a filename that does not match is
\* never kept, and nothing else is returned.
C10_KeptIffInWindow ==
    main.pc = "filtered" =>
        /\ \A n \in 1..Len(filenames) :
              (\E m \in 1..Len(main.paths) : main.paths[m] = filenames[n])
                  <=> /\ filenames[n].prefix = "CC-NEWS"
                      /\ filenames[n].ndigits = 14
                      /\ DtLeq(ex.start_date, filenames[n].time)
                      /\ DtLess(filenames[n].time, ex.end_date)
        /\ \A m \in 1..Len(main.paths) :
              \E n \in 1..Len(filenames) : filenames[n] = main.paths[m]

\* Window [2022-04-01, 2022-05-01) against 20220331235959, 20220415120000
\* and 20220501000001: only the middle file is kept.
C10_Witness ==
    /\ main.pc = "filtered"
    /\ ex.start_date = D0401 /\ ex.end_date = D0501
    /\ filenames = <<FileMarch, FileApril, FileMay>>
    /\ main.paths = <<FileApril>>

\* C27: a filename from which no valid capture timestamp can be derived
\* (no match of the CC-NEWS pattern, or fourteen digits that are not a date
\* and a time) is left out of the filtered list, and the filter does not
\* raise.
C27_NoTimestampExcludedQuietly ==
    /\ main.pc # "raised"
    /\ main.pc = "filtered" =>
          \A m \in 1..Len(main.paths) :
              /\ WARC_FILE_RE(main.paths[m]) # None
              /\ IsDatetime(main.paths[m].time)

\* ------------------------------------------------------------------------
\* JobSpec: one ExtractionJob.extract_warc(limit) over a fixed archive
\* ------------------------------------------------------------------------
poolVars == <<now, ex, main, filenames, tasks, results, handler>>

\* The records of the archives of JobSpec: one or two for each way through
\* the body of the loop (RecordSpec takes every kind through it).
JobRecordKinds ==
    {RecGood, RecPlain, RecOtherUrl, RecNoWarc, RecBadBytes, RecParseErr,
     RecLangErr}

Archives == UNION {[1..n -> JobRecordKinds] : n \in 0..MaxRecords}
Limits == {None} \cup {Some(n) : n \in 0..MaxLimit}
FileSizes == {None, Some(0), Some(MaxRecords + 1)}

JobInit ==
    /\ archive \in Archives
    /\ limit \in Limits
    /\ \E ps \in PatternSets, re \in 1..MaxReportEvery : job = NewJob(ps, re)
    /\ now \in Clock
    /\ ex = NewExtractor(CpuCount, now)
    /\ main = NewCall
    /\ filenames = <<>>
    /\ tasks = <<>>
    /\ results = <<>>
    /\ handler = 0

JobDownload ==
    /\ job.pc = "idle"
    /\ \E response \in Responses, fs \in FileSizes :
           job' = download(job, response, fs)
    /\ UNCHANGED <<archive, limit, poolVars>>

JobNextRecord ==
    /\ job.pc = "streaming"
    /\ job.i < Len(archive)
    /\ job' = parse_records(job, archive[job.i + 1], limit)
    /\ UNCHANGED <<archive, limit, poolVars>>

JobEndOfStream ==
    /\ job.pc = "streaming"
    /\ job.i = Len(archive)
    /\ job' = [job EXCEPT !.pc = "finalizing"]
    /\ UNCHANGED <<archive, limit, poolVars>>

JobSave ==
    /\ job.pc = "finalizing"
    /\ \E ok \in BOOLEAN : job' = save_to_parquet(job, ok)
    /\ UNCHANGED <<archive, limit, poolVars>>

JobNext == JobDownload \/ JobNextRecord \/ JobEndOfStream \/ JobSave

JobSpec == JobInit /\ [][JobNext]_vars

Min(a, b) == IF a <= b THEN a ELSE b

\* The record loop of the job has ended (by exhaustion, by the limit or by
\* an exception) after a successful download.
LoopEnded == job.response = "ok" /\ job.pc # "streaming"

\* C1: with no limit, parse_records processes every record of the archive
\* and does not raise, whatever records are malformed or make the decoding,
\* the adapter or the language detector fail.
C1_EveryRecordProcessed ==
    (limit = None /\ LoopEnded) =>
        /\ job.i = Len(archive)
        /\ job.raised \notin {"AttributeError", "ZeroDivisionError"}

\* C2: the counters of the job add up to the number of records processed
\* (total = extracted + discarded + errored = records processed), and each
\* processed record adds exactly 1 to exactly one of the three counters.
C2_OneCounterPerRecord ==
    /\ [](counters(job).total = job.i)
    /\ [][/\ job'.i \in {job.i, job.i + 1}
          /\ job'.i = job.i =>
                 /\ job'.extracted = job.extracted
                 /\ job'.discarded = job.discarded
                 /\ job'.errored = job.errored
          /\ job'.i = job.i + 1 =>
                 \/ /\ job'.extracted = job.extracted + 1
                    /\ job'.discarded = job.discarded
                    /\ job'.errored = job.errored
                 \/ /\ job'.extracted = job.extracted
                    /\ job'.discarded = job.discarded + 1
                    /\ job'.errored = job.errored
                 \/ /\ job'.extracted = job.extracted
                    /\ job'.discarded = job.discarded
                    /\ job'.errored = job.errored + 1]_vars

\* A job that processed three records, one of each outcome.
C2_Witness ==
    /\ job.pc = "done"
    /\ job.i = 3
    /\ job.extracted = 1 /\ job.discarded = 1 /\ job.errored = 1

\* C3: with a limit L on an archive of n records the loop stops once L
\* records are processed, for every reporting interval: min(L, n) records
\* are visited and counted, and the stream is closed when records remain.
C3_LimitStopsLoop ==
    (limit # None /\ LoopEnded /\ job.pc \in {"finalizing", "done"}) =>
        /\ job.i = Min(Val(limit), Len(archive))
        /\ counters(job).total = Min(Val(limit), Len(archive))
        /\ (Len(archive) > Val(limit) => job.closed)

\* Every record of the (non-empty) archive is eligible and its body is not
\* valid UTF-8.
AllUndecodable ==
    /\ Len(archive) > 0
    /\ \A n \in 1..Len(archive) :
          /\ archive[n].rec_headers
          /\ is_valid_record(archive[n], job.patterns)
          /\ ~archive[n].decodes

\* C13: a job whose download succeeds and all of whose records fail at the
\* decoding of the body counts every processed record as errored and none as
\* extracted or discarded, and its record loop does not raise: extract_warc
\* goes on to write the (empty) parquet file and returns.
C13_AllDecodingFailuresAbsorbed ==
    (job.response = "ok" /\ AllUndecodable) =>
        /\ job.extracted = 0
        /\ job.discarded = 0
        /\ job.errored = job.i
        /\ job.articles = <<>>
        /\ job.pc = "failed" => job.raised = "WriteError"
        /\ (job.pc = "done" /\ limit = None) => job.errored = Len(archive)

\* Three records, none of which decodes: the job returned with errored = 3.
C13_Witness ==
    /\ AllUndecodable
    /\ Len(archive) = 3
    /\ limit = None
    /\ job.pc = "done"
    /\ job.saves = 1
    /\ job.errored = 3 /\ job.extracted = 0 /\ job.discarded = 0

\* The three counters of the job after a step are those before it with 1
\* added to the counter `field` only.
OnlyCounted(field) ==
    /\ job'.extracted = job.extracted + (IF field = "extracted" THEN 1 ELSE 0)
    /\ job'.discarded = job.discarded + (IF field = "discarded" THEN 1 ELSE 0)
    /\ job'.errored = job.errored + (IF field = "errored" THEN 1 ELSE 0)

\* C14: each processed record is counted by its first failing step: an
\* ineligible record only as discarded, without its body being decoded or
\* handed to the adapter; an eligible record whose decoding or extraction
\* fails only as errored; an eligible record whose extraction succeeds only
\* as extracted.  An archive of a matching text/html utf-8 response, a
\* text/plain response and a response of a non-matching URL, in any order,
\* ends with extracted = 1, discarded = 2, errored = 0.
C14_FirstFailingStep ==
    /\ [][job'.i = job.i + 1 =>
            LET record == archive[job.i + 1] IN
            IF ~is_valid_record(record, job.patterns)
            THEN /\ OnlyCounted("discarded")
                 /\ job'.decoded = job.decoded
                 /\ job'.adapted = job.adapted
                 /\ job'.articles = job.articles
            ELSE IF ~record.decodes
            THEN /\ OnlyCounted("errored")
                 /\ job'.adapted = job.adapted
                 /\ job'.articles = job.articles
            ELSE IF record.adapter \in {"parse_raises", "detect_raises"}
            THEN /\ OnlyCounted("errored")
                 /\ job'.articles = job.articles
            ELSE /\ OnlyCounted("extracted")
                 /\ Len(job'.articles) = Len(job.articles) + 1]_vars
    /\ []((/\ Len(archive) = 3
           /\ job.i = 3
           /\ job.patterns = <<PatExample>>
           /\ {archive[n] : n \in 1..Len(archive)} =
                  {RecGood, RecPlain, RecOtherUrl})
              => /\ job.extracted = 1
                 /\ job.discarded = 2
                 /\ job.errored = 0)

\* The archive <<matching html, text/plain, non-matching URL>> was processed
\* to its end: one article, two records discarded, two bodies never read.
C14_Witness ==
    /\ archive = <<RecGood, RecPlain, RecOtherUrl>>
    /\ job.patterns = <<PatExample>>
    /\ job.pc = "done"
    /\ job.extracted = 1 /\ job.discarded = 2 /\ job.errored = 0
    /\ job.decoded = 1 /\ job.adapted = 1

\* C15: when the GET of the archive answers with a status that is not a
\* success, extract_warc processes no record, still writes the (empty)
\* article buffer to the parquet file of the job, does not raise, and the
\* job returns with all its counters at zero.
C15_BadStatusFinalizesEmpty ==
    job.response = "bad_status" =>
        /\ job.i = 0
        /\ counters(job) = [extracted |-> 0, discarded |-> 0, errored |-> 0,
                            total |-> 0]
        /\ job.articles = <<>>
        /\ job.pc \in {"finalizing", "done", "failed"}
        /\ job.pc = "done" => job.saves = 1
        /\ job.pc = "failed" => job.raised = "WriteError"

\* A bad status for an archive of three records: the job returned after
\* one write, with no record processed.
C15_Witness ==
    /\ job.response = "bad_status"
    /\ Len(archive) = 3
    /\ job.pc = "done"
    /\ job.saves = 1
    /\ job.i = 0

\* C16: when the GET of the archive fails with a network error instead of
\* answering with a status, the job still reaches finalization with zero
\* articles and returns a result with zero processed records.
C16_NetworkErrorFinalizesEmpty ==
    job.response = "network_error" =>
        /\ job.i = 0
        /\ job.articles = <<>>
        /\ job.pc \in {"finalizing", "done", "failed"}
        /\ job.pc = "done" => job.saves = 1
        /\ job.pc = "failed" => job.raised = "WriteError"

\* C21: a job constructed with an empty pattern list is accepted with a
\* warning and no error, its validator rejects every record, and after any
\* record sequence extracted = 0, errored = 0 and discarded = total.
C21_EmptyPatternsDiscardAll ==
    job.patterns = <<>> =>
        /\ ~set_patterns(job.patterns).raised
        /\ job.warned
        /\ \A n \in 1..Len(archive) : ~is_valid_record(archive[n], job.patterns)
        /\ job.extracted = 0
        /\ job.errored = 0
        /\ job.discarded = counters(job).total
        /\ job.discarded = job.i
        /\ job.articles = <<>>

\* Three records, the first a matching text/html response: with no pattern
\* all three were discarded.
C21_Witness ==
    /\ job.patterns = <<>>
    /\ job.warned
    /\ Len(archive) = 3
    /\ archive[1] = RecGood
    /\ job.pc = "done"
    /\ job.discarded = 3

\* The loop is at a record whose index has reached the limit, and takes
\* its step for it.
AtLimit ==
    /\ job.pc = "streaming"
    /\ job.i < Len(archive)
    /\ limit # None /\ job.i >= Val(limit)
    /\ job' # job

\* The step stops the loop because of the limit: the stream is closed and
\* the record is not processed.
StopsAtLimit ==
    /\ job'.pc = "finalizing"
    /\ job'.closed
    /\ job'.i = job.i
    /\ counters(job') = counters(job)

\* C22: the limit is honored only on iterations whose index is a multiple
\* of the report interval or 0; on every other iteration with i >= limit the
\* loop does not stop.
C22_LimitOnlyOnReportIterations ==
    [][AtLimit =>
          (StopsAtLimit <=> (job.i = 0 \/ job.i % job.report_every = 0))]_vars

\* C22 as amended: the limit is honored only on iterations whose index is 0
\* or is not a multiple of the report interval; on an iteration i # 0 that is
\* a multiple of the report interval the loop does not stop, even when
\* i >= limit.
C22_LimitSkippedOnReportIterations ==
    [][AtLimit =>
          (StopsAtLimit <=> (job.i = 0 \/ job.i % job.report_every # 0))]_vars

\* limit = 2 with a report every 2 records: the record of index 2 was
\* processed all the same.
C22_Witness ==
    /\ limit = Some(2)
    /\ job.report_every = 2
    /\ job.i = 3
    /\ ~job.closed
    /\ job.pc = "done"

\* C26: within one job records are taken in archive order, one at a time:
\* the records classified so far are exactly the first job.i of the archive,
\* a step classifies at most the next one, and the article buffer lists the
\* extracted articles in the order of their records in the archive.
C26_RecordsInArchiveOrder ==
    /\ [](job.i <= Len(archive) /\
          job.extracted + job.discarded + job.errored = job.i)
    /\ [][job'.i \in {job.i, job.i + 1} /\
            (job'.i = job.i => counters(job') = counters(job))]_vars
    /\ [][job'.articles # job.articles =>
             /\ job'.i = job.i + 1
             /\ job'.articles = Append(job.articles,
                                      job'.articles[Len(job'.articles)])
             /\ job'.articles[Len(job'.articles)].index = job.i]_vars
    /\ [](\A a, b \in 1..Len(job.articles) :
             /\ job.articles[a].index < job.i
             /\ job.articles[a].url =
                    Val(archive[job.articles[a].index + 1].source)
             /\ a < b => job.articles[a].index < job.articles[b].index)

\* Two articles extracted around a record that is not: the buffer holds
\* the first and the third record, in that order.
C26_Witness ==
    /\ job.pc = "done"
    /\ Len(job.articles) = 2
    /\ job.discarded + job.errored = 1
    /\ job.articles[1].index = 0
    /\ job.articles[2].index = 2

\* C29: in every state of a run of extract_warc on a fresh job the article
\* buffer holds as many articles as the extracted counter says: an article
\* is appended exactly when extracted is incremented, and never for a
\* discarded or an errored record.
C29_BufferMatchesExtracted ==
    /\ [](Len(job.articles) = job.extracted)
    /\ [][(Len(job'.articles) = Len(job.articles) + 1
              <=> job'.extracted = job.extracted + 1)
          /\ Len(job'.articles) \in {Len(job.articles),
                                      Len(job.articles) + 1}]_vars
    /\ [][(job'.discarded # job.discarded \/ job'.errored # job.errored)
             => job'.articles = job.articles]_vars

\* One record extracted, one discarded and one errored: one article.
C29_Witness ==
    /\ job.pc = "done"
    /\ job.extracted = 1 /\ job.discarded = 1 /\ job.errored = 1
    /\ Len(job.articles) = 1

\* The moves of an Extraction Job: Idle -> Streaming (the download answered
\* ok), Idle -> Finalizing (bad status), Idle -> Failed (no response),
\* Streaming -> Finalizing, Finalizing -> Done, and Finalizing -> Failed when
\* the write of the output raises.
JobMoves ==
    {<<"idle", "streaming">>, <<"idle", "finalizing">>, <<"idle", "failed">>,
     <<"streaming", "finalizing">>, <<"finalizing", "done">>,
     <<"finalizing", "failed">>}

\* C25: a job follows Idle -> Downloading -> Streaming -> Finalizing ->
\* Done: once it has an HTTP response its output is written exactly once,
\* only after the record iteration has ended, no record is processed after
\* finalization has begun, and a failure on a record during Streaming never
\* moves the job to Failed.
C25_JobStateMachine ==
    /\ [][job'.pc # job.pc => <<job.pc, job'.pc>> \in JobMoves]_vars
    /\ [][job.pc \in {"finalizing", "done", "failed"} =>
             /\ job'.i = job.i
             /\ counters(job') = counters(job)
             /\ job'.articles = job.articles]_vars
    /\ [][job'.saves # job.saves =>
             /\ job.pc = "finalizing"
             /\ job'.pc = "done"
             /\ job'.saves = job.saves + 1]_vars
    /\ [](job.saves = IF job.pc = "done" THEN 1 ELSE 0)

\* ------------------------------------------------------------------------
\* RecordSpec: extract_warc over an archive of one record of any shape
\* ------------------------------------------------------------------------
RecTypes == {"response", "request", "metadata"}

ContentTypes ==
    {CtHtmlUtf8, CtHtmlUpper, CtPlainUtf8, CtHtmlLatin, CtHtmlBare}

\* The records with both header sets: every kind, source URL and
\* Content-Type, with a body that decodes or not; and the records of
\* RecordKinds, some of which lack a header set.
AllRecords ==
    RecordKinds \cup
    {Rec(x[1], TRUE, TRUE, Some(x[2]), Some(x[3]), x[4], "text") :
        x \in RecTypes \X {UrlExample, UrlOther} \X ContentTypes \X BOOLEAN}

RecordInit ==
    /\ archive \in {<<record>> : record \in AllRecords}
    /\ limit \in Limits
    /\ \E ps \in PatternSets, re \in 1..MaxReportEvery : job = NewJob(ps, re)
    /\ now \in Clock
    /\ ex = NewExtractor(CpuCount, now)
    /\ main = NewCall
    /\ filenames = <<>>
    /\ tasks = <<>>
    /\ results = <<>>
    /\ handler = 0

RecordSpec == RecordInit /\ [][JobNext]_vars

\* The Content-Type value is the MIME type text/html with the charset
\* utf-8 in any case.
IsHtmlUtf8(content) ==
    /\ content.mime = "text/html"
    /\ content.semi
    /\ content.charset \in {"utf-8", "UTF-8"}

\* C12: is_valid_record is false for every record whose kind is not
\* "response" and for every record whose Content-Type is not text/html with
\* charset utf-8 (in any case), whether or not its URL matches a pattern;
\* the loop counts such a record as discarded.
C12_IneligibleNeverValid ==
    \A n \in 1..Len(archive) :
        LET record == archive[n] IN
        (\/ record.rec_type # "response"
         \/ record.content = None
         \/ ~IsHtmlUtf8(Val(record.content)))
            => /\ ~is_valid_record(record, job.patterns)
               /\ job.i >= n => (job.discarded = 1 /\ job.articles = <<>>)

\* A response of a URL that matches the pattern, text/html in iso-8859-1,
\* was discarded; so was a request of a matching URL in text/html utf-8.
C12_Witness ==
    /\ job.i = 1
    /\ job.patterns = <<PatExample>>
    /\ archive[1].source = Some(UrlExample)
    /\ \/ archive[1].rec_type = "response" /\ archive[1].content = Some(CtHtmlLatin)
       \/ archive[1].rec_type = "request" /\ archive[1].content = Some(CtHtmlUtf8)
    /\ job.discarded = 1

\* ------------------------------------------------------------------------
\* ReportSpec: calls of ExtractionJob.report_progress on a new job
\* ------------------------------------------------------------------------
MaxOffset == 4

ReportOffsets == 0..MaxOffset
ReportFileSizes == {None} \cup {Some(n) : n \in 0..MaxOffset}

ReportInit ==
    /\ \E ps \in PatternSets, re \in 1..MaxReportEvery : job = NewJob(ps, re)
    /\ archive = <<>>
    /\ limit = None
    /\ now \in Clock
    /\ ex = NewExtractor(CpuCount, now)
    /\ main = NewCall
    /\ filenames = <<>>
    /\ tasks = <<>>
    /\ results = <<>>
    /\ handler = 0

\* job.report_progress(start_time, offset, file_size)
ReportProgress ==
    /\ job.pc = "idle"
    /\ \E offset \in ReportOffsets, file_size \in ReportFileSizes :
           job' = call_report_progress(job, offset, file_size)
    /\ UNCHANGED <<archive, limit, poolVars>>

ReportNext == ReportProgress

ReportSpec == ReportInit /\ [][ReportNext]_vars

MaxBatches == 2

\* The window bounds of the batches, and the remote archive answering
\* every index with a listing of well-formed names.
BatchDates == {D0401, D0501}

BatchFetches ==
    {fetch \in Fetches :
        \A key \in IndexKeys :
            /\ fetch[key].response = "ok"
            /\ \A n \in 1..Len(fetch[key].content) :
                  fetch[key].content[n] # FileBad}

\* A call of download_articles on an extractor that may have run batches
\* before: after the construction, after a call that raised or after one
\* that returned.
BatchDownloadArticles ==
    /\ main.pc \in {"ready", "raised", "returned"}
    /\ main.pc = "returned" => main.batches + 1 < MaxBatches
    /\ \E patterns \in PoolPatternSets, start_date \in BatchDates,
          end_date \in BatchDates, lim \in PoolLimits :
         download_articles(patterns, start_date, end_date, lim, BatchFetches)
    /\ UNCHANGED <<now, job, archive, limit>>

BatchNext ==
    \/ BatchDownloadArticles
    \/ MainThread
    \/ WorkerProcesses
    \/ ResultThread

BatchSpec == Init /\ [][BatchNext]_vars

\* The files of the jobs of this batch that extracted something.
BatchRetained == {k \in Succeeded : tasks[k].job.extracted > 0}

\* C30: download_articles never resets or decreases the global counters or
\* the list of retained files: over any sequence of batches on one
\* extractor each counter only grows and parquet_files only gets longer,
\* the call itself leaves them as the batch before left them, and when a
\* batch returns the totals are those at its entry plus those of its jobs.
C30_BatchesAccumulate ==
    /\ [][/\ ex'.extracted >= ex.extracted
          /\ ex'.discarded >= ex.discarded
          /\ ex'.errored >= ex.errored
          /\ Len(ex'.parquet_files) >= Len(ex.parquet_files)
          /\ SubSeq(ex'.parquet_files, 1, Len(ex.parquet_files))
                = ex.parquet_files]_vars
    /\ [][main'.before # main.before =>
             /\ ex_counters(ex') = ex_counters(ex)
             /\ ex'.parquet_files = ex.parquet_files
             /\ main'.before = Some([counters |-> ex_counters(ex),
                                     parquet_files |-> ex.parquet_files])]_vars
    /\ [](main.pc = "returned" =>
            LET before == Val(main.before) IN
            /\ ex.extracted = before.counters.extracted
                                 + JobSum(Succeeded, "extracted")
            /\ ex.discarded = before.counters.discarded
                                 + JobSum(Succeeded, "discarded")
            /\ ex.errored = before.counters.errored
                               + JobSum(Succeeded, "errored")
            /\ Len(ex.parquet_files) = Len(before.parquet_files)
                                         + Cardinality(BatchRetained))

\* The second batch returned: the first had extracted one article and
\* skipped one record, the second extracted one and failed on one.
C30_Witness ==
    /\ main.pc = "returned"
    /\ main.batches = 1
    /\ Val(main.before).counters.extracted = 1
    /\ Val(main.before).counters.discarded = 1
    /\ Val(main.before).counters.errored = 0
    /\ JobSum(Succeeded, "extracted") = 1
    /\ JobSum(Succeeded, "errored") = 1
    /\ ex.extracted = 2 /\ ex.discarded = 1 /\ ex.errored = 1
    /\ Len(ex.parquet_files) = 2

\* ------------------------------------------------------------------------
\* FairSpec: one download_articles under fair scheduling
\* ------------------------------------------------------------------------
\* The window bounds of the call: no, one or two archives to process.
FairDates == {D0315, D0401, D0501}

\* An extractor constructed with one worker process or with the default,
\* one per processor.
FairInit ==
    /\ now \in Clock
    /\ \E n \in {None, Some(1)} :
           /\ ~set_processors(n).raised
           /\ ex = NewExtractor(set_processors(n).value, now)
    /\ main = NewCall
    /\ filenames = <<>>
    /\ tasks = <<>>
    /\ results = <<>>
    /\ handler = 0
    /\ job = NewJob(<<>>, 1)
    /\ archive = <<>>
    /\ limit = None

FairDownloadArticles ==
    /\ main.pc \in {"ready", "raised"}
    /\ \E patterns \in PoolPatternSets, start_date \in FairDates,
          end_date \in FairDates, lim \in PoolLimits :
         download_articles(patterns, start_date, end_date, lim, BatchFetches)
    /\ UNCHANGED <<now, job, archive, limit>>

FairNext ==
    \/ FairDownloadArticles
    \/ MainThread
    \/ WorkerProcesses
    \/ ResultThread

\* The operating system gives every runnable process and thread its turn:
\* while a worker of the pool, its result thread or the caller inside
\* download_articles can take a step, one of them does. Nothing obliges the
\* caller to call download_articles.
FairSpec ==
    /\ FairInit /\ [][FairNext]_vars
    /\ WF_vars(WorkerProcesses \/ ResultThread \/ MainThread)

\* C28: every job terminates (an archive is a finite stream of records and a
\* job returns or raises), so under fair scheduling every submitted job is
\* started and completed, its result handled, and download_articles
\* returns.
C28_DownloadArticlesReturns ==
    (main.pc = "submitting") ~>
        (/\ main.pc = "returned"
         /\ Len(tasks) = Len(main.paths)
         /\ \A k \in TaskIds : /\ tasks[k].status = "finished"
                               /\ tasks[k].job.pc \in {"done", "failed"}
                               /\ tasks[k].cb = "done")

\* One worker process and two archives: the second job waited for the
\* first, both ran to their end and the call returned.
C28_Witness ==
    /\ main.pc = "returned"
    /\ ex.processors = 1
    /\ Len(tasks) = 2
    /\ tasks[1].job.pc = "done" /\ tasks[1].job.i = MaxPoolRecords
    /\ tasks[2].job.pc = "done" /\ tasks[2].job.i = MaxPoolRecords

\* ------------------------------------------------------------------------
\* MirrorSpec: download_articles over an index that lists one filename
\* under two directories
\* ------------------------------------------------------------------------
\* crawl-data/CC-NEWS/2022/04/mirror/CC-NEWS-20220415120000-00002.warc.gz:
\* the filename of FileApril under another directory.
FileMirror ==
    File("2022/04/mirror", "CC-NEWS", 14, <<2022, 4, 15, 12, 0, 0>>, "00002")

\* The index of April lists both paths, the other indexes FileMarch and
\* FileMay.
MirrorFetches ==
    {[key \in IndexKeys |->
        IndexResponse("ok", IF key = <<2022, 4>> THEN <<FileApril, FileMirror>>
                            ELSE IF key = <<2022, 3>> THEN <<FileMarch>>
                            ELSE <<FileMay>>)]}

MirrorDownloadArticles ==
    /\ main.pc \in {"ready", "raised"}
    /\ \E patterns \in PoolPatternSets, start_date \in BatchDates,
          end_date \in BatchDates, lim \in PoolLimits :
         download_articles(patterns, start_date, end_date, lim, MirrorFetches)
    /\ UNCHANGED <<now, job, archive, limit>>

MirrorNext ==
    \/ MirrorDownloadArticles
    \/ MainThread
    \/ WorkerProcesses
    \/ ResultThread

MirrorSpec == Init /\ [][MirrorNext]_vars

\* C31: jobs share no output: two archive paths submitted in one batch
\* with different download locators give two different parquet files, so
\* no two jobs that run at the same time write the same file.
C31_DistinctOutputLocations ==
    \A a, b \in TaskIds :
        tasks[a].path # tasks[b].path =>
            /\ filepath(tasks[a].path) # filepath(tasks[b].path)
            /\ ~(/\ tasks[a].status = "running"
                 /\ tasks[b].status = "running"
                 /\ tasks[a].job.pc = "finalizing"
                 /\ tasks[b].job.pc = "finalizing"
                 /\ filepath(tasks[a].path) = filepath(tasks[b].path))

====
